---- MODULE Spec2Model ----
(***************************************************************************)
(* Model of the Suboptimal-firewall gateway.                               *)
(*                                                                         *)
(*   src/main.go     rateLimiter: sessionCheck, limitCheck, startTimer,    *)
(*                   cleanUp, and the two unbuffered signal channels        *)
(*   src/LoadB/lb.go Loadbalancer: GetNextAvailableServer,                  *)
(*                   GetLeastConnServer, ServeProxy, SimpleServer           *)
(*                                                                         *)
(* Time is a discrete clock `now`.  A handler that holds rl.mu runs        *)
(* without interruption up to its only blocking point, the send on the     *)
(* unbuffered channel blacklistCh, so a check is one step up to that send  *)
(* and a second step when the consumer receives.                           *)
(***************************************************************************)
EXTENDS Integers, Sequences, FiniteSets, TLC

(* ------------------------------ bounds -------------------------------- *)
\* The three tunables of src/main.go:17-21, at a reduced scale that keeps
\* their order (rateLimit >= 1, brownListedDuration > trackingDuration).
rateLimit == 2
trackingDuration == 2
brownListedDuration == 3
\* Requests arrive while now <= MaxTime; at most MaxCalls requests in a run.
MaxTime == 4
MaxCalls == 6
\* the request budget of the fair specification
MaxFairCalls == 4
\* the request budget of the gateway specification
MaxGWCalls == 3
\* ServeProxy: requests in a run
MaxRequests == 4
\* probes of one GetNextAvailableServer call the model follows beyond
\* len(lb.Servers)
MaxExtraProbes == 1
\* changes of a server's liveness in a run
MaxFlips == 1
\* the servers main registers, in order
NumServers == 3

IPs == {"a", "b"}
NoIP == "none"
NoTime == -1

(* ------------------------- admission control -------------------------- *)
VARIABLES
    now,          \* time.Now()
    requests,     \* rl.requests : ip -> sequence of timestamps
    blackList,    \* rl.blackList: ip -> bool
    brownList,    \* rl.brownList: ip -> end time, NoTime when the key is absent
    mu,           \* rl.mu: "free", or the handler that holds it
    blacklistCh,  \* the ip a handler is blocked sending on blacklistCh, or NoIP
    timers,       \* the running startTimer goroutines
    cleanDue,     \* the instant cleanUp's current time.Sleep ends
    ncalls,       \* number of admission checks made so far
    \* history variables, read by the properties only
    calls,        \* ip -> every admission check of the ip: its time, whether
                  \*       it got past the early return (rec), its answer (ok)
    last,         \* the most recent admission check and its outcome
    brownCount,   \* ip -> number of transitions into the brown-list
    unblockSent   \* ip -> number of ips delivered on unblockCh

VARIABLES
    alive,            \* Server.IsAlive() of each server
    RoundRobinCount,  \* lb.RoundRobinCount
    activeConn,       \* SimpleServer.activeConn of each server
    SessionTable,     \* lb.SessionTable: session id -> server, Nil when absent
    Algorithm,        \* lb.Algorithm
    lbmu,             \* lb.mu: 0 when free, else the request that holds it
    pc,               \* where each request in flight stands in ServeProxy
    sid,              \* its Session-ID header, "" when it has none
    target,           \* its targetServer
    nreq,             \* number of requests ServeProxy has taken so far
    nflips,           \* number of liveness changes so far
    \* history variables, read by the properties only
    probes,           \* IsAlive calls of the current GetNextAvailableServer
    rrHist            \* servers GetNextAvailableServer returned since the
                      \*   liveness of a server last changed

lbVars == <<alive, RoundRobinCount, activeConn, SessionTable, Algorithm, lbmu,
            pc, sid, target, nreq, nflips, probes, rrHist>>

rlVars == <<now, requests, blackList, brownList, mu, blacklistCh, timers,
            cleanDue, ncalls>>
ghostVars == <<calls, last, brownCount, unblockSent>>
vars == <<rlVars, ghostVars, lbVars>>

NoCall == [op |-> "none", ip |-> NoIP, t |-> 0, ok |-> TRUE, fresh |-> TRUE,
           preBlack |-> FALSE, preEnd |-> NoTime]

Servers == 1..NumServers
Nil == 0
Tokens == {"s1"}
\* the handlers that run ServeProxy at the same time
Reqs == {1, 2}

\* NewLoadbalancer and NewServer; liveness and algorithm are left to InitPool
InitLB ==
    /\ RoundRobinCount = 0
    /\ activeConn = [s \in Servers |-> 0]
    /\ SessionTable = [k \in Tokens |-> Nil]
    /\ lbmu = 0
    /\ pc = [r \in Reqs |-> "idle"]
    /\ sid = [r \in Reqs |-> ""]
    /\ target = [r \in Reqs |-> Nil]
    /\ nreq = 0
    /\ nflips = 0
    /\ probes = 0
    /\ rrHist = << >>

\* main: three SimpleServers (IsAlive is constant true), algorithm "lc"
InitMain ==
    /\ InitLB
    /\ alive = [s \in Servers |-> TRUE]
    /\ Algorithm = "lc"

\* newRateLimiter: empty maps, cleanUp started and asleep.
InitRL ==
    /\ now = 0
    /\ requests = [ip \in IPs |-> << >>]
    /\ blackList = [ip \in IPs |-> FALSE]
    /\ brownList = [ip \in IPs |-> NoTime]
    /\ mu = "free"
    /\ blacklistCh = NoIP
    /\ timers = {}
    /\ cleanDue = trackingDuration
    /\ ncalls = 0
    /\ calls = [ip \in IPs |-> << >>]
    /\ last = NoCall
    /\ brownCount = [ip \in IPs |-> 0]
    /\ unblockSent = [ip \in IPs |-> 0]

Init == InitRL /\ InitMain

\* the window one unit short
InWindowShort(t, at) == t > at - trackingDuration + 1

\* t.After(cutoff) with cutoff = at - trackingDuration
InWindow(t, at) == t > at - trackingDuration

\* the history left as it is
PruneKeepsAll(h, at) == h

\* the filteredRequests loop of sessionCheck, limitCheck and cleanUp
Prune(h, at) == SelectSeq(h, LAMBDA t : InWindow(t, at))

\* append now, then prune
Record(h, at) == Prune(Append(h, at), at)

\* the comparison off by one
OverLimitGeq(h) == Len(h) >= rateLimit

\* len(rl.requests[ip]) > rateLimit
OverLimit(h) == Len(h) > rateLimit

\* the expiry test off by one: still rejected at endTime itself
BrownActiveAtEnd(ip) == brownList[ip] # NoTime /\ now <= brownList[ip]

\* brownList[ip] found and time.Now().Before(endTime)
BrownActive(ip) == brownList[ip] # NoTime /\ now < brownList[ip]

\* the send left out
SendOmitted(ip, holder) == UNCHANGED <<blacklistCh, mu>>

\* rl.blacklistCh <- ip: the handler blocks on the unbuffered channel, and
\* its deferred rl.mu.Unlock() has not run
Send(ip, holder) ==
    /\ blacklistCh' = ip
    /\ mu' = holder

\* history: what the check found (fresh: the ip was never blocked before)
CallRec(op, ip, ok) ==
    [op |-> op, ip |-> ip, t |-> now, ok |-> ok,
     fresh |-> ~blackList[ip] /\ brownCount[ip] = 0,
     preBlack |-> blackList[ip], preEnd |-> brownList[ip]]

Logged(ip, rec, ok) ==
    [calls EXCEPT ![ip] = Append(@, [t |-> now, rec |-> rec, ok |-> ok])]

sessionCheck(ip) ==
    /\ mu = "free"
    /\ ncalls < MaxCalls /\ now <= MaxTime
    /\ ncalls' = ncalls + 1
    /\ IF BrownActive(ip)
       THEN /\ last' = CallRec("sessionCheck", ip, FALSE)
            /\ calls' = Logged(ip, FALSE, FALSE)
            /\ UNCHANGED <<requests, brownList, mu, blacklistCh, brownCount>>
       ELSE LET h == Record(requests[ip], now) IN
            /\ requests' = [requests EXCEPT ![ip] = h]
            /\ calls' = Logged(ip, TRUE, ~OverLimit(h))
            /\ IF OverLimit(h)
               THEN /\ brownList' = [brownList EXCEPT ![ip] = now + brownListedDuration]
                    /\ Send(ip, "sessionCheck")
                    /\ brownCount' = [brownCount EXCEPT ![ip] = @ + 1]
                    /\ last' = CallRec("sessionCheck", ip, FALSE)
               ELSE /\ brownList' = [brownList EXCEPT ![ip] = NoTime]
                    /\ last' = CallRec("sessionCheck", ip, TRUE)
                    /\ UNCHANGED <<mu, blacklistCh, brownCount>>
    /\ UNCHANGED <<now, blackList, timers, cleanDue, unblockSent>>
    /\ UNCHANGED lbVars

\* a check that moves the ip from the brown-list to the blacklist
limitCheckMoving(ip) ==
    /\ mu = "free"
    /\ ncalls < MaxCalls /\ now <= MaxTime
    /\ ncalls' = ncalls + 1
    /\ IF blackList[ip]
       THEN /\ last' = CallRec("limitCheck", ip, FALSE)
            /\ calls' = Logged(ip, FALSE, FALSE)
            /\ UNCHANGED <<requests, blackList, brownList, mu, blacklistCh>>
       ELSE LET h == Record(requests[ip], now) IN
            /\ requests' = [requests EXCEPT ![ip] = h]
            /\ calls' = Logged(ip, TRUE, ~OverLimit(h))
            /\ IF OverLimit(h)
               THEN /\ blackList' = [blackList EXCEPT ![ip] = TRUE]
                    /\ brownList' = [brownList EXCEPT ![ip] = NoTime]
                    /\ Send(ip, "limitCheck")
                    /\ last' = CallRec("limitCheck", ip, FALSE)
               ELSE /\ last' = CallRec("limitCheck", ip, TRUE)
                    /\ UNCHANGED <<blackList, brownList, mu, blacklistCh>>
    /\ UNCHANGED <<now, timers, cleanDue, brownCount, unblockSent>>
    /\ UNCHANGED lbVars

limitCheck(ip) ==
    /\ mu = "free"
    /\ ncalls < MaxCalls /\ now <= MaxTime
    /\ ncalls' = ncalls + 1
    /\ IF blackList[ip]
       THEN /\ last' = CallRec("limitCheck", ip, FALSE)
            /\ calls' = Logged(ip, FALSE, FALSE)
            /\ UNCHANGED <<requests, blackList, mu, blacklistCh>>
       ELSE LET h == Record(requests[ip], now) IN
            /\ requests' = [requests EXCEPT ![ip] = h]
            /\ calls' = Logged(ip, TRUE, ~OverLimit(h))
            /\ IF OverLimit(h)
               THEN /\ blackList' = [blackList EXCEPT ![ip] = TRUE]
                    /\ Send(ip, "limitCheck")
                    /\ last' = CallRec("limitCheck", ip, FALSE)
               ELSE /\ last' = CallRec("limitCheck", ip, TRUE)
                    /\ UNCHANGED <<blackList, mu, blacklistCh>>
    /\ UNCHANGED <<now, brownList, timers, cleanDue, brownCount, unblockSent>>
    /\ UNCHANGED lbVars

\* the timer started with the tracking window instead of the brown-list one
TimerDueShort == now + trackingDuration

\* go startTimer(ip, rl.unblockCh, brownListedDuration): time.Sleep(duration)
\* ends no earlier than this instant
TimerDue == now + brownListedDuration

\* The consumer takes the ip from blacklistCh; the blocked handler goes on:
\* sessionCheck starts its timer, and the deferred Unlock runs.
RecvBlock ==
    /\ blacklistCh # NoIP
    /\ blacklistCh' = NoIP
    /\ timers' = IF mu = "sessionCheck"
                 THEN timers \cup {[ip |-> blacklistCh,
                                    due |-> TimerDue,
                                    trans |-> last.t]}
                 ELSE timers
    /\ mu' = "free"
    /\ UNCHANGED <<now, requests, blackList, brownList, cleanDue, ncalls, ghostVars>>
    /\ UNCHANGED lbVars

\* startTimer after its Sleep: the consumer takes the ip from unblockCh.
RecvUnblock(tm) ==
    /\ now >= tm.due
    /\ timers' = timers \ {tm}
    /\ unblockSent' = [unblockSent EXCEPT ![tm.ip] = @ + 1]
    /\ UNCHANGED <<now, requests, blackList, brownList, mu, blacklistCh,
                   cleanDue, ncalls, calls, last, brownCount>>
    /\ UNCHANGED lbVars

\* a sweep that also resets the block lists
cleanUpResetting ==
    /\ mu = "free"
    /\ now >= cleanDue
    /\ requests' = [ip \in IPs |-> Prune(requests[ip], now)]
    /\ blackList' = [ip \in IPs |-> FALSE]
    /\ cleanDue' = now + trackingDuration
    /\ UNCHANGED <<now, brownList, mu, blacklistCh, timers, ncalls, ghostVars>>
    /\ UNCHANGED lbVars

\* one pass of cleanUp's loop
cleanUp ==
    /\ mu = "free"
    /\ now >= cleanDue
    /\ requests' = [ip \in IPs |-> Prune(requests[ip], now)]
    /\ cleanDue' = now + trackingDuration
    /\ UNCHANGED <<now, blackList, brownList, mu, blacklistCh, timers, ncalls,
                   ghostVars>>
    /\ UNCHANGED lbVars

Tick ==
    /\ now < MaxTime \/ \E tm \in timers : tm.due > now
    /\ now' = now + 1
    /\ UNCHANGED <<requests, blackList, brownList, mu, blacklistCh, timers,
                   cleanDue, ncalls, ghostVars>>
    /\ UNCHANGED lbVars

(* ------------------------------ the pool ------------------------------ *)
\* lb.Servers[count % len(lb.Servers)]
ServerAt(count) == (count % NumServers) + 1

\* the cursor left on the server just returned
CursorKept(count) == count

\* lb.RoundRobinCount++ before GetNextAvailableServer returns
CursorAfterReturn(count) == count + 1

\* ties go to the later server
BetterOrEqual(s, selected) ==
    selected = Nil \/ activeConn[s] <= activeConn[selected]

\* selected == nil || server.ActiveConn() < selected.ActiveConn()
Better(s, selected) ==
    selected = Nil \/ activeConn[s] < activeConn[selected]

\* the range loop of GetLeastConnServer from server i on
RECURSIVE LeastConnFrom(_, _)
LeastConnFrom(i, selected) ==
    IF i > NumServers THEN selected
    ELSE LeastConnFrom(i + 1,
            IF ~alive[i] THEN selected
            ELSE IF Better(i, selected) THEN i ELSE selected)

\* ServeProxy up to the choice of how the target is found
Arrive(r, s) ==
    /\ pc[r] = "idle"
    /\ \A q \in Reqs : q < r => pc[q] # "idle"
    /\ nreq < MaxRequests
    /\ nreq' = nreq + 1
    /\ sid' = [sid EXCEPT ![r] = s]
    /\ IF s # ""
       THEN IF SessionTable[s] # Nil
            THEN /\ target' = [target EXCEPT ![r] = SessionTable[s]]
                 /\ pc' = [pc EXCEPT ![r] = "inc"]
            ELSE /\ pc' = [pc EXCEPT ![r] = "rr"]
                 /\ UNCHANGED target
       ELSE /\ pc' = [pc EXCEPT ![r] = IF Algorithm = "lc" THEN "lc" ELSE "rr"]
            /\ UNCHANGED target
    /\ UNCHANGED <<alive, RoundRobinCount, activeConn, SessionTable, Algorithm,
                   lbmu, nflips, probes, rrHist>>
    /\ UNCHANGED <<rlVars, ghostVars>>

\* GetLeastConnServer, whole, under lb.mu
GetLeastConnServer(r) ==
    /\ pc[r] = "lc"
    /\ lbmu = 0
    /\ target' = [target EXCEPT ![r] = LeastConnFrom(1, Nil)]
    /\ pc' = [pc EXCEPT ![r] = "inc"]
    /\ UNCHANGED <<alive, RoundRobinCount, activeConn, SessionTable, Algorithm,
                   lbmu, sid, nreq, nflips, probes, rrHist>>
    /\ UNCHANGED <<rlVars, ghostVars>>

\* GetNextAvailableServer: lb.mu.Lock() and the first server read
RRLock(r) ==
    /\ pc[r] = "rr"
    /\ lbmu = 0
    /\ lbmu' = r
    /\ probes' = 0
    /\ pc' = [pc EXCEPT ![r] = "probe"]
    /\ UNCHANGED <<alive, RoundRobinCount, activeConn, SessionTable, Algorithm,
                   sid, target, nreq, nflips, rrHist>>
    /\ UNCHANGED <<rlVars, ghostVars>>

\* one turn of `for !server.IsAlive()`: the server is dead, move on
RRSkip(r) ==
    /\ pc[r] = "probe"
    /\ ~alive[ServerAt(RoundRobinCount)]
    /\ probes < NumServers + MaxExtraProbes
    /\ probes' = probes + 1
    /\ RoundRobinCount' = RoundRobinCount + 1
    /\ UNCHANGED <<alive, activeConn, SessionTable, Algorithm, lbmu, pc, sid,
                   target, nreq, nflips, rrHist>>
    /\ UNCHANGED <<rlVars, ghostVars>>

\* the server is alive: count once more, unlock, return it
RRReturn(r) ==
    /\ pc[r] = "probe"
    /\ alive[ServerAt(RoundRobinCount)]
    /\ probes' = probes + 1
    /\ RoundRobinCount' = CursorAfterReturn(RoundRobinCount)
    /\ target' = [target EXCEPT ![r] = ServerAt(RoundRobinCount)]
    /\ rrHist' = Append(rrHist, ServerAt(RoundRobinCount))
    /\ lbmu' = 0
    /\ pc' = [pc EXCEPT ![r] = IF sid[r] # "" THEN "bind" ELSE "inc"]
    /\ UNCHANGED <<alive, activeConn, SessionTable, Algorithm, sid, nreq, nflips>>
    /\ UNCHANGED <<rlVars, ghostVars>>

\* lb.SessionTable[sessionID] = targetServer
Bind(r) ==
    /\ pc[r] = "bind"
    /\ SessionTable' = [SessionTable EXCEPT ![sid[r]] = target[r]]
    /\ pc' = [pc EXCEPT ![r] = "inc"]
    /\ UNCHANGED <<alive, RoundRobinCount, activeConn, Algorithm, lbmu, sid,
                   target, nreq, nflips, probes, rrHist>>
    /\ UNCHANGED <<rlVars, ghostVars>>

\* targetServer.IncActiveConn(); on a nil targetServer the call panics
IncActiveConn(r) ==
    /\ pc[r] = "inc"
    /\ IF target[r] = Nil
       THEN /\ pc' = [pc EXCEPT ![r] = "panic"]
            /\ UNCHANGED activeConn
       ELSE /\ activeConn' = [activeConn EXCEPT ![target[r]] = @ + 1]
            /\ pc' = [pc EXCEPT ![r] = "serve"]
    /\ UNCHANGED <<alive, RoundRobinCount, SessionTable, Algorithm, lbmu, sid,
                   target, nreq, nflips, probes, rrHist>>
    /\ UNCHANGED <<rlVars, ghostVars>>

\* targetServer.Serve returns and ServeProxy with it; a panicked handler is
\* recovered by net/http and is over as well
ServeReturn(r) ==
    /\ pc[r] \in {"serve", "panic"}
    /\ pc' = [pc EXCEPT ![r] = "idle"]
    /\ sid' = [sid EXCEPT ![r] = ""]
    /\ target' = [target EXCEPT ![r] = Nil]
    /\ UNCHANGED <<alive, RoundRobinCount, activeConn, SessionTable, Algorithm,
                   lbmu, nreq, nflips, probes, rrHist>>
    /\ UNCHANGED <<rlVars, ghostVars>>

\* the answer of a server's IsAlive changes
SetAlive(s) ==
    /\ nflips < MaxFlips
    /\ nflips' = nflips + 1
    /\ alive' = [alive EXCEPT ![s] = ~@]
    /\ rrHist' = << >>
    /\ UNCHANGED <<RoundRobinCount, activeConn, SessionTable, Algorithm, lbmu,
                   pc, sid, target, nreq, probes>>
    /\ UNCHANGED <<rlVars, ghostVars>>

\* a pool of servers of any liveness, under either algorithm
InitPool ==
    /\ InitRL /\ InitLB
    /\ alive \in [Servers -> BOOLEAN]
    /\ Algorithm \in {"lc", "rr"}

NextLB ==
    \/ \E r \in Reqs : \E s \in Tokens \cup {""} : Arrive(r, s)
    \/ \E r \in Reqs : GetLeastConnServer(r)
    \/ \E r \in Reqs : RRLock(r)
    \/ \E r \in Reqs : RRSkip(r)
    \/ \E r \in Reqs : RRReturn(r)
    \/ \E r \in Reqs : Bind(r)
    \/ \E r \in Reqs : IncActiveConn(r)
    \/ \E r \in Reqs : ServeReturn(r)
    \/ \E s \in Servers : SetAlive(s)

SpecLB == InitPool /\ [][NextLB]_vars

(* --------------------------- the admission run ------------------------ *)
Next ==
    \/ \E ip \in IPs : sessionCheck(ip)
    \/ \E ip \in IPs : limitCheck(ip)
    \/ RecvBlock
    \/ \E tm \in timers : RecvUnblock(tm)
    \/ cleanUp
    \/ Tick

Spec == Init /\ [][Next]_vars

\* the same program with a smaller request budget
FairNext == Next /\ ncalls' <= MaxFairCalls

FairSpec ==
    /\ Init /\ [][FairNext]_vars
    /\ WF_vars(Tick)
    /\ WF_vars(RecvBlock)
    /\ WF_vars(\E tm \in timers : RecvUnblock(tm))

TypeOK ==
    /\ now \in Nat
    /\ \A ip \in IPs : Len(requests[ip]) <= MaxCalls
    /\ mu \in {"free", "sessionCheck", "limitCheck"}
    /\ blacklistCh \in IPs \cup {NoIP}
    /\ RoundRobinCount \in Nat
    /\ \A r \in Reqs : target[r] \in Servers \cup {Nil}

(* ----------------------- properties: admission ------------------------ *)
IsCheck(c) == c.op \in {"sessionCheck", "limitCheck"}

\* a request made at time t lies within the last trackingDuration at time `at`
Within(t, at) == at - t < trackingDuration

\* the ip's requests within the last trackingDuration at time `at`
CountAll(ip, at) ==
    Cardinality({i \in 1..Len(calls[ip]) : Within(calls[ip][i].t, at)})

\* the same, of the requests that were not turned away as already blocked
CountRec(ip, at) ==
    Cardinality({i \in 1..Len(calls[ip]) :
                    calls[ip][i].rec /\ Within(calls[ip][i].t, at)})

\* C1: a request of an ip that was never blocked before is admitted iff the
\* ip's requests within the last trackingDuration, this one included, are
\* at most rateLimit; otherwise it is rejected and blocks the ip: blacklist
\* on the non-session path, brown-list on the session path.
C1_AdmitIffWithinLimit ==
    (IsCheck(last) /\ last.fresh) =>
        /\ last.ok <=> CountAll(last.ip, last.t) <= rateLimit
        /\ ~last.ok =>
             /\ last.op = "limitCheck" => blackList[last.ip]
             /\ last.op = "sessionCheck" =>
                    brownList[last.ip] = last.t + brownListedDuration

\* C1 witness: request rateLimit+1 of one window is the first one rejected.
C1_Witness ==
    /\ IsCheck(last) /\ last.fresh /\ ~last.ok
    /\ CountAll(last.ip, last.t) = rateLimit + 1
    /\ blackList[last.ip]

\* C2: every request of an ip that is already blacklisted is rejected,
\* with or without a Session-ID header.
C2_BlacklistedRejected ==
    (IsCheck(last) /\ last.preBlack) => ~last.ok

\* C3: no step removes an ip from the blacklist.
C3_BlacklistTerminal ==
    [][\A ip \in IPs : blackList[ip] => blackList'[ip]]_vars

\* C3 witness: an ip is blacklisted, cleanUp has swept since and a request
\* of the ip was handled after the blacklisting.
C3_Witness ==
    /\ IsCheck(last) /\ last.preBlack /\ blackList[last.ip]
    /\ cleanDue > last.t + trackingDuration

\* C4 as stated: a session request of an ip brown-listed until preEnd is
\* rejected before preEnd and admitted from preEnd on.
C4_AdmittedAfterExpiry ==
    (last.op = "sessionCheck" /\ last.preEnd # NoTime) =>
        (last.ok <=> last.t >= last.preEnd)

\* C4 amended: before preEnd the session request is rejected; from preEnd on
\* it is admitted iff the ip's requests that were not turned away as already
\* blocked, within the last trackingDuration and this one included, are at
\* most rateLimit.
C4_EligibleAfterExpiry ==
    (last.op = "sessionCheck" /\ last.preEnd # NoTime) =>
        /\ last.t < last.preEnd => ~last.ok
        /\ last.t >= last.preEnd =>
             (last.ok <=> CountRec(last.ip, last.t) <= rateLimit)

\* C4 witness: the first session request after the expiry is admitted.
C4_Witness ==
    /\ last.op = "sessionCheck" /\ last.preEnd # NoTime
    /\ last.t >= last.preEnd /\ last.ok

\* the unblock signals of an ip that are still to come
PendingUnblocks(ip) ==
    Cardinality({tm \in timers : tm.ip = ip})
    + (IF mu = "sessionCheck" /\ blacklistCh = ip THEN 1 ELSE 0)

\* C5: each transition into the brown-list leads to exactly one unblock
\* signal for the ip, delivered no earlier than brownListedDuration after
\* the transition, and there is no other unblock signal.
C5_OneUnblockPerBrownListing ==
    /\ [](\A ip \in IPs : unblockSent[ip] + PendingUnblocks(ip) = brownCount[ip])
    /\ [][\A tm \in timers :
            tm \notin timers' => now >= tm.trans + brownListedDuration]_vars
    /\ \A ip \in IPs : \A k \in 1..MaxCalls :
            (brownCount[ip] >= k) ~> (unblockSent[ip] >= k)

\* C5 witness: an ip was brown-listed and its unblock signal was delivered.
C5_Witness ==
    \E ip \in IPs : brownCount[ip] >= 1 /\ unblockSent[ip] = brownCount[ip]

\* the step moves the ip into the brown-list or into the blacklist
BlockTransition(ip) ==
    \/ ~blackList[ip] /\ blackList'[ip]
    \/ brownList'[ip] # NoTime /\ brownList'[ip] # brownList[ip]

\* C6: a step begins a send of the ip on the block channel iff it moves the
\* ip into the brown-list or into the blacklist; a request rejected as
\* already blocked sends nothing.
C6_BlockSignalPerTransition ==
    [][\A ip \in IPs :
          BlockTransition(ip) <=> (blacklistCh = NoIP /\ blacklistCh' = ip)]_vars

\* C6 witness: a request was rejected as already blacklisted and no send
\* is pending.
C6_Witness ==
    /\ IsCheck(last) /\ last.preBlack /\ ~last.ok
    /\ blacklistCh = NoIP /\ mu = "free"

\* C7: no handler waits on the block channel while it holds rl.mu.
C7_NoSendUnderLock ==
    blacklistCh # NoIP => mu = "free"

(* ------------------------- properties: the pool ----------------------- *)
\* the first alive server after s in cyclic registration order
NextAliveAfter(s) ==
    LET step == CHOOSE d \in 1..NumServers :
                    /\ alive[((s - 1 + d) % NumServers) + 1]
                    /\ \A e \in 1..(d - 1) : ~alive[((s - 1 + e) % NumServers) + 1]
    IN ((s - 1 + step) % NumServers) + 1

\* C8: while liveness stays as it is, GetNextAvailableServer returns alive
\* servers only, each the next alive one after the server returned before,
\* and between two returns of one server every other alive server is
\* returned exactly once.
C8_RoundRobinOrder ==
    /\ \A i \in 1..Len(rrHist) : alive[rrHist[i]]
    /\ \A i \in 1..(Len(rrHist) - 1) : rrHist[i + 1] = NextAliveAfter(rrHist[i])
    /\ \A i, j \in 1..Len(rrHist) :
          (/\ i < j
           /\ rrHist[i] = rrHist[j]
           /\ \A k \in (i + 1)..(j - 1) : rrHist[k] # rrHist[i])
          => \A s \in Servers \ {rrHist[i]} :
                alive[s] =>
                    Cardinality({k \in (i + 1)..(j - 1) : rrHist[k] = s}) = 1

\* C8 witness: with a dead server in the pool, the same alive server is
\* returned again after the other alive one.
C8_Witness ==
    /\ Cardinality({s \in Servers : alive[s]}) = 2
    /\ Len(rrHist) >= 3
    /\ rrHist[1] = rrHist[3] /\ rrHist[1] # rrHist[2]

\* C9: in a pool with no alive server, a GetNextAvailableServer call that has
\* probed len(lb.Servers) servers has stopped and released lb.mu.
C9_ProbesBounded ==
    (lbmu # 0 /\ \A s \in Servers : ~alive[s]) => probes < NumServers

C11_NoServerNoPanic ==
    \A r \in Reqs : pc[r] # "panic"

\* C12: a session id that is bound in the session table keeps its server.
C12_BindingImmutable ==
    [][\A k \in Tokens :
          SessionTable[k] # Nil => SessionTable'[k] = SessionTable[k]]_vars

\* C13: two requests with the same session id are never served by different
\* servers.
C13_OneServerPerSession ==
    \A r, q \in Reqs :
        (/\ sid[r] # "" /\ sid[r] = sid[q]
         /\ pc[r] = "serve" /\ pc[q] = "serve")
        => target[r] = target[q]

\* C14: a request whose session id is not yet bound gets its server from the
\* configured algorithm (never from the round-robin cursor when the pool is
\* configured "lc"), and the session id is bound by the time it is served.
C14_UnboundSessionUsesAlgorithm ==
    \A r \in Reqs :
        sid[r] # "" =>
            /\ Algorithm = "lc" => pc[r] \notin {"rr", "probe", "bind"}
            /\ pc[r] = "serve" => SessionTable[sid[r]] # Nil

\* C15: the connection count of every server is the number of requests being
\* served by it at that moment.
C15_ActiveConnIsInFlight ==
    \A s \in Servers :
        activeConn[s] =
            Cardinality({r \in Reqs : pc[r] = "serve" /\ target[r] = s})

\* the times of a sequence of logged checks
Times(cs) == [i \in 1..Len(cs) |-> cs[i].t]

\* the ip's admitted requests in the trackingDuration that ends at time `at`
AdmittedIn(ip, at) ==
    Cardinality({i \in 1..Len(calls[ip]) :
                    /\ calls[ip][i].ok
                    /\ calls[ip][i].t <= at
                    /\ Within(calls[ip][i].t, at)})

\* C16: whatever the order of the checks of an ip (on both paths) and the
\* sweeps, no recorded timestamp is lost: the part of the ip's history within
\* the last trackingDuration is exactly the recorded checks of that period, in
\* order; and the admitted requests of an ip in any period of trackingDuration
\* (the period (t - trackingDuration, t] up to an admitted request at t) are
\* at most rateLimit.
C16_WindowNeverExceeded ==
    \A ip \in IPs :
        /\ SelectSeq(requests[ip], LAMBDA t : Within(t, now))
             = Times(SelectSeq(calls[ip], LAMBDA c : c.rec /\ Within(c.t, now)))
        /\ \A j \in 1..Len(calls[ip]) :
               calls[ip][j].ok => AdmittedIn(ip, calls[ip][j].t) <= rateLimit

\* C16 witness: after a sweep, an ip with a rejected request on record has a
\* request admitted that fills its window exactly.
C16_Witness ==
    \E ip \in IPs :
        /\ cleanDue > trackingDuration
        /\ \E i \in 1..Len(calls[ip]) : calls[ip][i].rec /\ ~calls[ip][i].ok
        /\ Len(calls[ip]) > 0
        /\ calls[ip][Len(calls[ip])].ok
        /\ calls[ip][Len(calls[ip])].t = now
        /\ AdmittedIn(ip, now) = rateLimit

\* C17 as stated: no step leads to a state where an ip is both brown-listed
\* (unexpired) and blacklisted, and no step blacklists a brown-listed ip.
C17_OneBlockState ==
    [][\A ip \in IPs :
          /\ ~(BrownActive(ip)' /\ blackList'[ip])
          /\ (BrownActive(ip) /\ ~blackList[ip]) => ~blackList'[ip]]_vars

\* C17: the brown-list and the blacklist are separate records. The blacklist
\* entry of an ip changes only in a non-session check of that ip, which sets it
\* and leaves the brown-list alone, brown-listed or not; the brown-list entry
\* of an ip changes only in a session check of that ip, which leaves the
\* blacklist alone.
C17_IndependentBlockRecords ==
    [][\A ip \in IPs :
          /\ blackList'[ip] # blackList[ip] =>
                /\ ncalls' = ncalls + 1
                /\ last'.op = "limitCheck" /\ last'.ip = ip
                /\ blackList'[ip]
                /\ brownList' = brownList
          /\ brownList'[ip] # brownList[ip] =>
                /\ ncalls' = ncalls + 1
                /\ last'.op = "sessionCheck" /\ last'.ip = ip
                /\ blackList' = blackList]_vars

\* C17 witness: a non-session request has just blacklisted an ip whose
\* brown-listing has not expired: the ip is on both lists.
C17_Witness ==
    /\ last.op = "limitCheck" /\ ~last.ok /\ ~last.preBlack
    /\ last.preEnd # NoTime /\ last.t < last.preEnd
    /\ BrownActive(last.ip) /\ blackList[last.ip]

\* C19: a pass of cleanUp leaves in every ip's history exactly its previous
\* timestamps of the last trackingDuration, in their order, and changes
\* neither the brown-list nor the blacklist.
C19_SweepKeepsWindowOnly ==
    [][cleanDue' # cleanDue =>
          /\ \A ip \in IPs :
                requests'[ip] = SelectSeq(requests[ip], LAMBDA t : Within(t, now))
          /\ blackList' = blackList
          /\ brownList' = brownList]_vars

\* C19 witness: a pass has just run that dropped a stale timestamp of an ip
\* and kept a later one.
C19_Witness ==
    \E ip \in IPs :
        /\ cleanDue = now + trackingDuration
        /\ requests[ip] # << >>
        /\ blackList[ip]
        /\ \E i \in 1..Len(calls[ip]) :
              /\ calls[ip][i].rec
              /\ Within(calls[ip][i].t, calls[ip][Len(calls[ip])].t)
              /\ ~Within(calls[ip][i].t, now)

\* C20: no unblock signal is delivered for an ip while the ip is brown-listed
\* with an unexpired end time.
C20_NoUnblockWhileBrownListed ==
    [][\A tm \in timers : tm \notin timers' => ~BrownActive(tm.ip)]_vars

(* ------------------------------ the gateway --------------------------- *)
\* the requests admission control has let through so far
AdmittedCount ==
    Cardinality({c \in IPs \X (1..MaxCalls) :
                    c[2] <= Len(calls[c[1]]) /\ calls[c[1]][c[2]].ok})

\* a handler has been admitted and has not entered ServeProxy yet
Pending == nreq < AdmittedCount

\* handleRedirect up to the answer of the rate limiter: sessionCheck when the
\* request has a Session-ID header, limitCheck when it has none. The handler
\* that was admitted before enters ServeProxy first.
GWCheck(ip, s) ==
    /\ ~Pending
    /\ ncalls < MaxGWCalls
    /\ IF s # "" THEN sessionCheck(ip) ELSE limitCheck(ip)

\* a handler that goes on to ServeProxy whatever the rate limiter answered
GWArriveUnchecked(r) ==
    /\ IsCheck(last)
    /\ nreq < ncalls
    /\ \E s \in Tokens \cup {""} :
          /\ s # "" <=> last.op = "sessionCheck"
          /\ Arrive(r, s)

\* handleRedirect after the check: a rejected handler has returned with 429,
\* an admitted one calls lb.ServeProxy(w, r)
GWArrive(r) ==
    /\ Pending
    /\ last.ok
    /\ \E s \in Tokens \cup {""} :
          /\ s # "" <=> last.op = "sessionCheck"
          /\ Arrive(r, s)

\* the clients of the gateway run
GWIPs == {"a"}

\* main: the handlers of handleRedirect, the consumer of the two channels and
\* cleanUp; every server of main's pool is alive for good
NextGW ==
    \/ \E ip \in GWIPs : \E s \in Tokens \cup {""} : GWCheck(ip, s)
    \/ \E r \in Reqs : GWArrive(r)
    \/ \E r \in Reqs : GetLeastConnServer(r)
    \/ \E r \in Reqs : RRLock(r)
    \/ \E r \in Reqs : RRReturn(r)
    \/ \E r \in Reqs : Bind(r)
    \/ \E r \in Reqs : IncActiveConn(r)
    \/ \E r \in Reqs : ServeReturn(r)
    \/ RecvBlock
    \/ \E tm \in timers : RecvUnblock(tm)
    \/ cleanUp
    \/ Tick

SpecGW == Init /\ [][NextGW]_vars

RECURSIVE SumConn(_)
SumConn(n) == IF n = 0 THEN 0 ELSE activeConn[n] + SumConn(n - 1)

\* C18: a request the rate limiter rejects never reaches the pool. The check
\* that rejects it changes nothing of the pool, no handler enters ServeProxy
\* after it until another request is admitted, and the requests taken by
\* ServeProxy, the connections counted, the advances of the round-robin
\* cursor and the session bindings never outnumber the admitted requests.
C18_RejectedNeverReachesPool ==
    [][/\ (ncalls' # ncalls /\ ~last'.ok) => UNCHANGED lbVars
       /\ ~last.ok => nreq' = nreq
       /\ nreq' <= AdmittedCount'
       /\ SumConn(NumServers)' <= AdmittedCount'
       /\ RoundRobinCount' <= AdmittedCount'
       /\ \A k \in Tokens : SessionTable'[k] # Nil => AdmittedCount' >= 1]_vars

\* C18 witness: after rateLimit admitted requests were routed, a further
\* request was rejected and its handler has returned.
C18_Witness ==
    /\ IsCheck(last) /\ ~last.ok /\ mu = "free"
    /\ AdmittedCount = rateLimit
    /\ nreq = rateLimit
    /\ SumConn(NumServers) = rateLimit
====
